---- MODULE Spec2Model ----
(***************************************************************************)
(* SkyShield: the geospatial visualization subsystem.                      *)
(* AQMapSection (primary map, overview map, search, markers), the          *)
(* LegendControl overlay and the host page's selection.                    *)
(***************************************************************************)
EXTENDS Integers, Sequences, FiniteSets, TLC

(***************************************************************************)
(* Bounds of the model.                                                    *)
(***************************************************************************)
MaxInst == 2        \* primary map instances the map engine hands out
MaxZoom == 10       \* primary zoom levels are 0..MaxZoom
MaxLat == 2         \* latitudes are 1..MaxLat
MaxLocs == 2        \* longest location directory of the search specification
MaxLifeLocs == 1    \* longest location directory of the lifecycle specification
MaxQueryLen == 3    \* longest text typed in the search input
MaxAqi == 310       \* integer AQI values are -MaxAqi..MaxAqi
MaxCalls == 2       \* selection triggers recorded in the selection specification

(***************************************************************************)
(* Program constants.                                                      *)
(***************************************************************************)
InitialMiniZoom == 3
InitialZoom == 6
SearchZoom == 8
MiniZoomMin == 1
MiniZoomMax == 7
MiniZoomOffset == 2

(***************************************************************************)
(* JavaScript values.                                                      *)
(***************************************************************************)
Undefined == [t |-> "undefined"]
Null == [t |-> "null"]
NaNValue == [t |-> "nan"]
Num(n) == [t |-> "num", v |-> n]
\* a string: numeric strings ("42") carry their value, others ("n/a") do not
NumericStr(n) == [t |-> "str", numeric |-> TRUE, v |-> n]
NonNumericStr == [t |-> "str", numeric |-> FALSE, v |-> 0]

\* ToNumber of the relational comparison: [nan, v]
ToNumber(x) ==
  CASE x.t = "num" -> [nan |-> FALSE, v |-> x.v]
    [] x.t = "undefined" -> [nan |-> TRUE, v |-> 0]
    [] x.t = "null" -> [nan |-> FALSE, v |-> 0]
    [] x.t = "nan" -> [nan |-> TRUE, v |-> 0]
    [] x.t = "str" -> IF x.numeric THEN [nan |-> FALSE, v |-> x.v]
                      ELSE [nan |-> TRUE, v |-> 0]

\* x <= n in JavaScript: false whenever x converts to NaN
JsLe(x, n) == LET c == ToNumber(x) IN ~c.nan /\ c.v <= n

(***************************************************************************)
(* The marker classifier.                                                  *)
(***************************************************************************)
getColorOffByOne(aqi) ==
  IF JsLe(aqi, 49) THEN "green"
  ELSE IF JsLe(aqi, 100) THEN "yellow"
  ELSE IF JsLe(aqi, 150) THEN "orange"
  ELSE IF JsLe(aqi, 200) THEN "red"
  ELSE IF JsLe(aqi, 300) THEN "purple"
  ELSE "maroon"

getColor(aqi) ==
  IF JsLe(aqi, 50) THEN "green"
  ELSE IF JsLe(aqi, 100) THEN "yellow"
  ELSE IF JsLe(aqi, 150) THEN "orange"
  ELSE IF JsLe(aqi, 200) THEN "red"
  ELSE IF JsLe(aqi, 300) THEN "purple"
  ELSE "maroon"

(***************************************************************************)
(* Strings of the search: sequences of characters.                         *)
(***************************************************************************)
Str(s) == [t |-> "str", s |-> s]

toLowerCaseChar(c) ==
  CASE c = "D" -> "d"
    [] c = "N" -> "n"
    [] c = "H" -> "h"
    [] OTHER -> c

toLowerCase(s) == [i \in 1..Len(s) |-> toLowerCaseChar(s[i])]

RECURSIVE trimStart(_)
trimStart(s) ==
  IF s # <<>> /\ Head(s) = " " THEN trimStart(Tail(s)) ELSE s

RECURSIVE trimEnd(_)
trimEnd(s) ==
  IF s # <<>> /\ s[Len(s)] = " " THEN trimEnd(SubSeq(s, 1, Len(s) - 1)) ELSE s

trim(s) == trimEnd(trimStart(s))

\* String.prototype.includes: q occurs in s at some position
includes(s, q) ==
  \E k \in 1..(Len(s) + 1) :
    /\ k + Len(q) - 1 <= Len(s)
    /\ SubSeq(s, k, k + Len(q) - 1) = q

\* (x || ""): undefined and the empty string both give ""
OrEmpty(x) == IF x.t = "str" THEN x.s ELSE <<>>

(***************************************************************************)
(* Locations and data-source responses.                                    *)
(***************************************************************************)
Loc(name, lat, lon, aqi) ==
  [t |-> "obj", name |-> name, lat |-> lat, lon |-> lon, aqi |-> aqi]

Arr(a) == [t |-> "arr", a |-> a]
\* a value that is truthy, is no array and has no length (a plain object)
PlainObject == [t |-> "object"]

Lats == 1..MaxLat
Lng(lat) == lat + 10
Centers == {<<la, Lng(la)>> : la \in Lats}
Zooms == 0..MaxZoom
Instances == 1..MaxInst
\* the zoom levels of the lifecycle specification: the initial zoom and the
\* zoom a search flies to
LifeZooms == {InitialZoom, SearchZoom}
Events == {"move", "zoomend", "moveend"}

SeqsUpTo(S, n) == UNION {[1..k -> S] : k \in 0..n}

\* entries of the lifecycle specification: two records and a null entry
LocA == Loc(Str(<<"N", " ", "D">>), 1, Lng(1), Num(42))
LocB == Loc(Str(<<"D", " ", "H">>), MaxLat, Lng(MaxLat), Num(301))
LifecycleEntries == {LocA, LocB, Null}

Pending == [t |-> "pending"]
Rejected == [t |-> "reject"]
NullBody == [t |-> "nullbody"]
Body(locs) == [t |-> "body", locations |-> locs]

LifecycleResponses ==
  {Rejected, NullBody, Body(Undefined), Body(Null), Body(PlainObject)}
    \cup {Body(Arr(a)) : a \in SeqsUpTo(LifecycleEntries, MaxLifeLocs)}

\* entries of the search specification: "N D" and "D H" both contain "d", "U"
\* does not, and one location has no name
SearchEntries ==
  {Loc(Str(<<"N", " ", "D">>), 1, Lng(1), Num(42)),
   Loc(Str(<<"D", " ", "H">>), 2, Lng(2), Num(120)),
   Loc(Str(<<"U">>), 3, Lng(3), Num(301)),
   Loc(Undefined, 4, Lng(4), Num(42))}
SearchResponses == {Body(Arr(a)) : a \in SeqsUpTo(SearchEntries, MaxLocs)}

QueryChars == {"d", "D", " "}
Queries == SeqsUpTo(QueryChars, MaxQueryLen)

AqiInputs ==
  {Num(n) : n \in (0 - MaxAqi)..MaxAqi}
    \cup {Undefined, Null, NaNValue, NonNumericStr}

(***************************************************************************)
(* State.                                                                  *)
(***************************************************************************)
VARIABLES
  mounted,        \* AQMapSection is mounted
  onSelect,       \* the host supplied the onSelect prop
  loading,        \* useState(true)
  locations,      \* useState([])
  response,       \* the data-source request: Pending or how it settled
  loads,          \* times the finally callback ran
  logged,         \* console.error was called
  L,              \* the leaflet handle: useState(null)
  map,            \* useState(null): 0 or the primary map instance
  created,        \* primary map instances created so far
  view,           \* the viewport of the primary map instance in map
  listeners,      \* <<instance, event>>: setCenter registered on it
  miniCenter,     \* useState(null): <<>> or <<lat, lng>>
  miniZoom,       \* useState(3)
  miniMapRef,     \* useRef(null): 0 or 1 (the overview map)
  miniView,       \* the overview map's viewport
  miniSet,        \* the setView call of the last step
  search,         \* useState("")
  found,          \* handleSearch's found of the last step: 0, an index, -1
  flyCmd,         \* the flyTo call of the last step
  emit,           \* the onSelect call of the last step: 0 or an index
  invoked,        \* setCenter runs of the last step
  lastOp,         \* the last step: its name, and a map event's instance, event
  selected,       \* the host page's useState(null)
  legendPending,  \* LegendControl imports in flight, by captured map
  legendsOn,      \* legend controls attached to every map instance
  aqiArg,         \* the classifier's last argument
  color,          \* the classifier's last result
  dragging,       \* 0, or the primary map instance a drag is in progress on
  prevented,      \* the last step called the event's preventDefault
  triggered,      \* the marker clicks and search matches so far, in order
  emitted         \* the onSelect calls the host received so far, in order

vars ==
  <<mounted, onSelect, loading, locations, response, loads, logged, L, map,
    created, view, listeners, miniCenter, miniZoom, miniMapRef, miniView, miniSet,
    search, found, flyCmd, emit, invoked, lastOp, selected, legendPending,
    legendsOn, aqiArg, color, dragging, prevented, triggered, emitted>>

NoView == [t |-> "none"]
Viewport(c, z) == [t |-> "view", center |-> c, zoom |-> z]
NoCmd == [t |-> "none"]
NoCenter == <<>>

loadVars == <<loading, locations, response, loads, logged>>
mapVars == <<map, created, view, listeners, dragging>>
miniVars == <<miniCenter, miniZoom, miniMapRef, miniView>>
legendVars == <<legendPending, legendsOn>>
colorVars == <<aqiArg, color>>
histVars == <<triggered, emitted>>

Op(name) == [op |-> name, inst |-> 0, ev |-> "none"]
EventOp(m, ev) == [op |-> "mapEvent", inst |-> m, ev |-> ev]
KeyOp(k) == [op |-> "handleKey", inst |-> 0, ev |-> k]
ClickOp(i) == [op |-> "markerClick", inst |-> i, ev |-> "click"]

\* what a step that calls none of setCenter, setView, flyTo, onSelect leaves
Quiet(op) ==
  /\ lastOp' = Op(op)
  /\ prevented' = FALSE
  /\ invoked' = 0
  /\ miniSet' = NoCmd
  /\ flyCmd' = NoCmd
  /\ emit' = 0
  /\ found' = 0

Init ==
  /\ mounted = TRUE
  /\ onSelect = TRUE
  /\ loading = TRUE
  /\ locations = Arr(<<>>)
  /\ response = Pending
  /\ loads = 0
  /\ logged = FALSE
  /\ L = FALSE
  /\ map = 0
  /\ created = 0
  /\ view = NoView
  /\ listeners = {}
  /\ miniCenter = NoCenter
  /\ miniZoom = InitialMiniZoom
  /\ miniMapRef = 0
  /\ miniView = NoView
  /\ miniSet = NoCmd
  /\ search = <<>>
  /\ found = 0
  /\ flyCmd = NoCmd
  /\ emit = 0
  /\ invoked = 0
  /\ lastOp = Op("init")
  /\ selected = Null
  /\ legendPending = {}
  /\ legendsOn = [m \in Instances |-> 0]
  /\ aqiArg = Undefined
  /\ color = "none"
  /\ dragging = 0
  /\ prevented = FALSE
  /\ triggered = <<>>
  /\ emitted = <<>>

(***************************************************************************)
(* Rendering.                                                              *)
(***************************************************************************)
Truthy(x) == x.t \notin {"undefined", "null"}

\* !locations.length is false: an array with at least one element
HasLength(locs) == locs.t = "arr" /\ Len(locs.a) > 0

\* the render without its no-data return: locations[0].lat throws
ViewNoShortCircuit ==
  IF ~mounted THEN "none"
  ELSE IF loading THEN "loading"
  ELSE IF ~HasLength(locations) THEN "crash"
  ELSE IF locations.a[1].t = "null" THEN "crash"
  ELSE IF L /\ \E i \in 1..Len(locations.a) : locations.a[i].t = "null"
    THEN "crash"
  ELSE "map"

\* what AQMapSection returns: "loading", "nodata", "map", or "crash" when the
\* render throws (locations[0].lat or loc.aqi of a null entry)
View ==
  IF ~mounted THEN "none"
  ELSE IF loading THEN "loading"
  ELSE IF ~HasLength(locations) THEN "nodata"
  ELSE IF locations.a[1].t = "null" THEN "crash"
  ELSE IF L /\ \E i \in 1..Len(locations.a) : locations.a[i].t = "null"
    THEN "crash"
  ELSE "map"

\* the markers of the render: one per location once the leaflet handle is there
Markers ==
  IF View = "map" /\ L
    THEN [i \in 1..Len(locations.a) |->
           [position |-> <<locations.a[i].lat, locations.a[i].lon>>,
            color |-> getColor(locations.a[i].aqi),
            label |-> locations.a[i].aqi]]
    ELSE <<>>

(***************************************************************************)
(* The load effect.                                                        *)
(***************************************************************************)
\* the then callback: data.locations || [] (a null body throws into catch)
LoadedLocations(r) ==
  IF r.t = "body" /\ Truthy(r.locations) THEN r.locations
  ELSE IF r.t = "body" THEN Arr(<<>>)
  ELSE locations

\* the catch callback runs for a rejection and for a throw of the then callback
LoadLogs(r) == r.t \in {"reject", "nullbody"}

LoadSettled(r) ==
  /\ response = Pending
  /\ response' = r
  /\ loads' = loads + 1
  /\ logged' = (logged \/ LoadLogs(r))
  \* state setters of an unmounted component change nothing
  /\ locations' = IF mounted THEN LoadedLocations(r) ELSE locations
  /\ loading' = IF mounted THEN FALSE ELSE loading
  /\ Quiet("load")
  /\ UNCHANGED <<histVars, mounted, onSelect, L, mapVars, miniVars, search, selected,
                 legendVars, colorVars>>

\* import("leaflet").then(setL)
LeafletImported ==
  /\ mounted
  /\ ~L
  /\ L' = TRUE
  /\ Quiet("leaflet")
  /\ UNCHANGED <<histVars, mounted, onSelect, loadVars, mapVars, miniVars, search,
                 selected, legendVars, colorVars>>

(***************************************************************************)
(* The viewport synchronizer.                                              *)
(***************************************************************************)
Max(a, b) == IF a >= b THEN a ELSE b
Min(a, b) == IF a <= b THEN a ELSE b

OverviewZoomNoFloor(z) == Min(MiniZoomMax, z - MiniZoomOffset)

\* Math.max(1, Math.min(7, map.getZoom() - 2))
OverviewZoom(z) == Max(MiniZoomMin, Min(MiniZoomMax, z - MiniZoomOffset))

SyncEvents == {"move", "zoomend"}

SubscribeTo(ls, m) == ls \cup {<<m, e>> : e \in SyncEvents}

CleanupKeepsMove(ls, m) == ls \ {<<m, "zoomend">>}

\* the effect's cleanup: map.off("move"), map.off("zoomend")
Cleanup(ls, m) == ls \ {<<m, e>> : e \in SyncEvents}

\* setCenter of a closure whose map.getCenter() and map.getZoom() give c, z
SetCenter(c, z) ==
  /\ miniCenter' = IF mounted THEN c ELSE miniCenter
  /\ miniZoom' = IF mounted THEN OverviewZoom(z) ELSE miniZoom
  /\ IF miniMapRef # 0
       THEN /\ miniView' = Viewport(c, OverviewZoom(z))
            /\ miniSet' = [t |-> "setView", center |-> c,
                           zoom |-> OverviewZoom(z), animate |-> FALSE]
       ELSE /\ miniView' = miniView
            /\ miniSet' = NoCmd
  /\ miniMapRef' = miniMapRef
  /\ invoked' = 1

\* whenCreated of the primary MapContainer: setMap(m), then the commit runs
\* the synchronizer's effect (cleanup of the old map, setCenter, map.on) and
\* LegendControl's effect for the new map prop
WhenCreated(m) ==
  /\ View = "map"
  /\ m \in Instances
  /\ m = created + 1
  /\ created' = m
  /\ map' = m
  /\ view' = Viewport(<<locations.a[1].lat, locations.a[1].lon>>, InitialZoom)
  /\ listeners' =
       SubscribeTo(IF map # 0 THEN Cleanup(listeners, map) ELSE listeners, m)
  /\ SetCenter(view'.center, view'.zoom)
  /\ legendPending' = legendPending \cup {m}
  /\ lastOp' = Op("whenCreated")
  /\ prevented' = FALSE
  /\ dragging' = dragging
  /\ flyCmd' = NoCmd
  /\ emit' = 0
  /\ found' = 0
  /\ UNCHANGED <<histVars, mounted, onSelect, loadVars, L, search, selected, legendsOn,
                 colorVars>>

\* whenCreated of the overview MapContainer, rendered once miniCenter is set
MiniWhenCreated ==
  /\ View = "map"
  /\ miniCenter # NoCenter
  /\ miniMapRef = 0
  /\ miniMapRef' = 1
  /\ miniView' = Viewport(miniCenter, miniZoom)
  /\ Quiet("miniWhenCreated")
  /\ UNCHANGED <<histVars, mounted, onSelect, loadVars, L, mapVars, miniCenter, miniZoom,
                 search, selected, legendVars, colorVars>>

\* the map engine moves instance m to center c and zoom z and raises event ev
\* on it; every setCenter registered on m for ev runs. "move" is raised for
\* every frame of a movement, "moveend" when the movement (a drag) has ended
MapEvent(m, ev, c, z) ==
  /\ m \in 1..created
  /\ view' = IF m = map THEN Viewport(c, z) ELSE view
  /\ IF <<m, ev>> \in listeners
       THEN SetCenter(c, z)
       ELSE /\ UNCHANGED miniVars
            /\ miniSet' = NoCmd
            /\ invoked' = 0
  /\ lastOp' = EventOp(m, ev)
  /\ prevented' = FALSE
  /\ dragging' = IF ev = "moveend" /\ dragging = m THEN 0 ELSE dragging
  /\ flyCmd' = NoCmd
  /\ emit' = 0
  /\ found' = 0
  /\ UNCHANGED <<histVars, mounted, onSelect, loadVars, L, map, created, listeners,
                 search, selected, legendVars, colorVars>>

\* the user starts dragging primary map instance m
DragStart(m) ==
  /\ m \in 1..created
  /\ dragging = 0
  /\ dragging' = m
  /\ Quiet("dragStart")
  /\ UNCHANGED <<histVars, mounted, onSelect, loadVars, L, map, created, view,
                 listeners, miniVars, search, selected, legendVars, colorVars>>

\* the user pans or zooms the overview map itself: its MapContainer is given
\* no option that disables interaction, and no listener is registered on it
MiniGesture(c, z) ==
  /\ View = "map"
  /\ miniMapRef # 0
  /\ miniView' = Viewport(c, z)
  /\ Quiet("miniGesture")
  /\ UNCHANGED <<histVars, mounted, onSelect, loadVars, L, mapVars, miniCenter,
                 miniZoom, miniMapRef, search, selected, legendVars, colorVars>>

\* AQMapSection unmounts: the synchronizer's cleanup runs; LegendControl's
\* effect returned no cleanup
Unmount ==
  /\ mounted
  /\ mounted' = FALSE
  /\ listeners' = IF map # 0 THEN Cleanup(listeners, map) ELSE listeners
  /\ Quiet("unmount")
  /\ UNCHANGED <<histVars, dragging, onSelect, loadVars, L, map, created, view,
                 miniVars, search, selected, legendVars, colorVars>>

(***************************************************************************)
(* The legend overlay.                                                     *)
(***************************************************************************)
\* the then callback of LegendControl's import: legend.addTo(map)
LegendImported(m) ==
  /\ m \in legendPending
  /\ legendPending' = legendPending \ {m}
  /\ legendsOn' = [legendsOn EXCEPT ![m] = @ + 1]
  /\ Quiet("legendImported")
  /\ UNCHANGED <<histVars, mounted, onSelect, loadVars, L, mapVars, miniVars, search,
                 selected, colorVars>>

(***************************************************************************)
(* The search navigator.                                                   *)
(***************************************************************************)
RECURSIVE FindLastFrom(_, _, _)
FindLastFrom(a, q, i) ==
  IF i < 1 THEN 0
  ELSE IF a[i].t = "null" THEN -1
  ELSE IF includes(toLowerCase(OrEmpty(a[i].name)), q) THEN i
  ELSE FindLastFrom(a, q, i - 1)

FindLast(a, q) == FindLastFrom(a, q, Len(a))

\* locations.find(l => (l.name || "").toLowerCase().includes(q)) from index i:
\* the index found, 0 for undefined, -1 when l.name throws on a null entry
RECURSIVE FindFrom(_, _, _)
FindFrom(a, q, i) ==
  IF i > Len(a) THEN 0
  ELSE IF a[i].t = "null" THEN -1
  ELSE IF includes(toLowerCase(OrEmpty(a[i].name)), q) THEN i
  ELSE FindFrom(a, q, i + 1)

Find(a, q) == FindFrom(a, q, 1)

NormalizeNoTrim(s) == s

\* (search || "").trim()
Normalize(s) == trim(s)

FlyToInitialZoom(m, loc) ==
  [t |-> "flyTo", inst |-> m, center |-> <<loc.lat, loc.lon>>,
   zoom |-> InitialZoom, animate |-> TRUE]

\* map.flyTo([found.lat, found.lon], 8, { animate: true })
FlyTo(m, loc) ==
  [t |-> "flyTo", inst |-> m, center |-> <<loc.lat, loc.lon>>,
   zoom |-> SearchZoom, animate |-> TRUE]

\* the input's onChange
OnChange(s) ==
  /\ View = "map"
  /\ search' = s
  /\ Quiet("onChange")
  /\ UNCHANGED <<histVars, mounted, onSelect, loadVars, L, mapVars, miniVars, selected,
                 legendVars, colorVars>>

SetSelectedToggle(cur, loc) == IF cur = loc THEN Null ELSE loc

\* the host page's onSelect: (loc) => setSelected(loc)
SetSelected(cur, loc) == loc

\* onSelect && onSelect(locations[i]): the call made (0: none) and the host's
\* selection after it
Notify(i) ==
  /\ emit' = IF onSelect THEN i ELSE 0
  /\ selected' = IF onSelect THEN SetSelected(selected, locations.a[i])
                 ELSE selected

\* the body of handleSearch
DoSearch ==
  LET qRaw == Normalize(search)
      f == IF qRaw = <<>> THEN 0 ELSE Find(locations.a, toLowerCase(qRaw))
  IN /\ found' = f
     /\ IF f > 0 /\ map # 0
          THEN /\ flyCmd' = FlyTo(map, locations.a[f])
               /\ Notify(f)
          ELSE /\ flyCmd' = NoCmd
               /\ emit' = 0
               /\ selected' = selected

\* the search match that triggers a selection in this step: 0 for none
SearchTrigger == IF found' > 0 /\ map # 0 THEN found' ELSE 0

\* the selection history: the trigger of this step and the call it made
Record(trigger) ==
  /\ triggered' = IF trigger # 0 THEN Append(triggered, trigger) ELSE triggered
  /\ emitted' = IF emit' # 0 THEN Append(emitted, emit') ELSE emitted

\* the submit button's onClick: handleSearch
HandleSearchStep ==
  /\ View = "map"
  /\ DoSearch
  /\ lastOp' = Op("handleSearch")
  /\ prevented' = FALSE
  /\ invoked' = 0
  /\ miniSet' = NoCmd
  /\ UNCHANGED <<mounted, onSelect, loadVars, L, mapVars, miniVars, search,
                 legendVars, colorVars>>

HandleSearch == HandleSearchStep /\ UNCHANGED histVars

Keys == {"Enter", "d", "Escape"}

IsEnterAnyKey(k) == TRUE

\* e.key === "Enter"
IsEnter(k) == k = "Enter"

\* the input's onKeyDown: handleKey
HandleKeyStep(k) ==
  /\ View = "map"
  /\ IF IsEnter(k)
       THEN /\ prevented' = TRUE
            /\ DoSearch
       ELSE /\ prevented' = FALSE
            /\ found' = 0
            /\ flyCmd' = NoCmd
            /\ emit' = 0
            /\ selected' = selected
  /\ lastOp' = KeyOp(k)
  /\ invoked' = 0
  /\ miniSet' = NoCmd
  /\ UNCHANGED <<mounted, onSelect, loadVars, L, mapVars, miniVars, search,
                 legendVars, colorVars>>

(***************************************************************************)
(* The marker layer.                                                       *)
(***************************************************************************)
ClickTargetFirst(i) == 1

\* the click handler of marker i: () => onSelect && onSelect(loc)
ClickTarget(i) == i

MarkerClickStep(i) ==
  /\ i \in DOMAIN Markers
  /\ Notify(ClickTarget(i))
  /\ lastOp' = ClickOp(i)
  /\ prevented' = FALSE
  /\ found' = 0
  /\ flyCmd' = NoCmd
  /\ invoked' = 0
  /\ miniSet' = NoCmd
  /\ UNCHANGED <<mounted, onSelect, loadVars, L, mapVars, miniVars, search,
                 legendVars, colorVars>>

\* the selection triggers, with the history of triggers and onSelect calls
SubmitClick ==
  /\ Len(triggered) < MaxCalls
  /\ HandleSearchStep
  /\ Record(SearchTrigger)

HandleKey(k) ==
  /\ Len(triggered) < MaxCalls
  /\ HandleKeyStep(k)
  /\ Record(SearchTrigger)

MarkerClick(i) ==
  /\ Len(triggered) < MaxCalls
  /\ MarkerClickStep(i)
  /\ Record(i)

(***************************************************************************)
(* The classifier applied to one AQI value, as the marker render does.     *)
(***************************************************************************)
Classify(a) ==
  /\ aqiArg' = a
  /\ color' = getColor(a)
  /\ Quiet("classify")
  /\ UNCHANGED <<histVars, mounted, onSelect, loadVars, L, mapVars, miniVars, search,
                 selected, legendVars>>

(***************************************************************************)
(* Specifications.                                                         *)
(***************************************************************************)
\* the lifecycle: load, map instances, viewport synchronizer, legend
Next ==
  \/ \E r \in LifecycleResponses : LoadSettled(r)
  \/ LeafletImported
  \/ \E m \in Instances : WhenCreated(m)
  \/ MiniWhenCreated
  \/ \E m \in Instances, ev \in Events, c \in Centers, z \in LifeZooms :
       MapEvent(m, ev, c, z)
  \/ Unmount
  \/ \E m \in Instances : LegendImported(m)

Spec == Init /\ [][Next]_vars

\* the viewport synchronizer of one primary map over every zoom level
SyncResponses == {Body(Arr(<<LocA>>)), Body(Arr(<<LocB>>))}

NextSync ==
  \/ \E r \in SyncResponses : LoadSettled(r)
  \/ WhenCreated(1)
  \/ MiniWhenCreated
  \/ \E ev \in Events, c \in Centers, z \in Zooms : MapEvent(1, ev, c, z)
  \/ DragStart(1)
  \/ \E c \in Centers, z \in LifeZooms : MiniGesture(c, z)

SpecSync == Init /\ [][NextSync]_vars

\* the search navigator over directories of named locations
NextSearch ==
  \/ \E r \in SearchResponses : LoadSettled(r)
  \/ WhenCreated(1)
  \/ \E s \in Queries : OnChange(s)
  \/ HandleSearch

SpecSearch == Init /\ [][NextSearch]_vars

\* the selection channel: marker clicks, the submit button and the keyboard
SelectQueries == {<<>>, <<" ">>, <<"d">>, <<" ", "D">>, <<"d", " ", "h">>}

NextSelect ==
  \/ \E r \in SearchResponses : LoadSettled(r)
  \/ LeafletImported
  \/ WhenCreated(1)
  \/ \E s \in SelectQueries : OnChange(s)
  \/ SubmitClick
  \/ \E k \in Keys : HandleKey(k)
  \/ \E i \in 1..MaxLocs : MarkerClick(i)

SpecSelect == Init /\ [][NextSelect]_vars

\* the classifier over AQI values
NextColor == \E a \in AqiInputs : Classify(a)

SpecColor == Init /\ [][NextColor]_vars

(***************************************************************************)
(* Properties.                                                             *)
(***************************************************************************)
Clamp(x, lo, hi) == IF x < lo THEN lo ELSE IF x > hi THEN hi ELSE x

\* C1: whenever setCenter has run in a step and the overview map exists, the
\* overview viewport has the primary map's center and the zoom
\* clamp(primary zoom - 2, 1, 7), and it was set without animation.
C1_OverviewDerived ==
  (invoked > 0 /\ miniMapRef # 0) =>
    /\ view # NoView
    /\ miniView = Viewport(view.center, Clamp(view.zoom - 2, 1, 7))
    /\ miniSet.t = "setView"
    /\ miniSet.center = view.center
    /\ miniSet.zoom = Clamp(view.zoom - 2, 1, 7)
    /\ miniSet.animate = FALSE

\* a move to zoom 2 has set the overview to the floor, zoom 1
C1_Witness ==
  /\ lastOp.op = "mapEvent"
  /\ invoked > 0
  /\ miniMapRef # 0
  /\ view.zoom = 2
  /\ miniView.zoom = 1

\* C2: once the synchronizer is torn down (unmount, or the map instance
\* replaced), no setCenter is registered on that instance, and an event of that
\* instance runs no handler and sets no overview viewport.
C2_NoListenerAfterTeardown ==
  /\ \A l \in listeners : mounted /\ l[1] = map
  /\ (lastOp.op = "mapEvent" /\ (~mounted \/ lastOp.inst # map)) =>
       (invoked = 0 /\ miniSet = NoCmd)

\* the first instance was replaced while the overview map existed, and then
\* raised a move event
C2_Witness ==
  /\ lastOp = EventOp(1, "move")
  /\ map = 2
  /\ mounted
  /\ miniMapRef # 0

\* C3: at most one legend control is attached at any time, and none stays on
\* an instance that is unmounted or replaced.
C3_AtMostOneLegend ==
  /\ \A m \in Instances : legendsOn[m] <= 1
  /\ Cardinality({m \in Instances : legendsOn[m] > 0}) <= 1
  /\ \A m \in Instances : (~mounted \/ m # map) => legendsOn[m] = 0

Band(n) ==
  IF n <= 50 THEN "green"
  ELSE IF n <= 100 THEN "yellow"
  ELSE IF n <= 150 THEN "orange"
  ELSE IF n <= 200 THEN "red"
  ELSE IF n <= 300 THEN "purple"
  ELSE "maroon"

\* C4: for every integer AQI the classifier returns the color of the band
\* with inclusive upper bounds 50, 100, 150, 200, 300, maroon above 300.
C4_Bands ==
  (lastOp.op = "classify" /\ aqiArg.t = "num") => color = Band(aqiArg.v)

\* 300 is still purple
C4_Witness ==
  /\ lastOp.op = "classify"
  /\ aqiArg = Num(300)
  /\ color = "purple"

Absent(x) ==
  \/ x.t \in {"undefined", "null", "nan"}
  \/ (x.t = "str" /\ ~x.numeric)

\* C5: for an absent or non-numeric AQI the classifier returns the Hazardous
\* fallback color, maroon.
C5_FallbackMaroon ==
  (lastOp.op = "classify" /\ Absent(aqiArg)) => color = "maroon"

\* the directory indices whose lower-cased name contains q
Matches(q) ==
  {i \in 1..Len(locations.a) :
     includes(toLowerCase(OrEmpty(locations.a[i].name)), q)}

Searched == lastOp.op = "handleSearch"
Query == toLowerCase(trim(search))
CoordsOf(i) == <<locations.a[i].lat, locations.a[i].lon>>

\* C6: for a query that is non-empty after trimming, handleSearch finds the
\* location of smallest index whose lower-cased name contains the trimmed,
\* lower-cased query, and a flyTo or onSelect it makes is for that location.
C6_FirstMatch ==
  (Searched /\ trim(search) # <<>>) =>
    /\ (Matches(Query) = {} => found = 0)
    /\ (Matches(Query) # {} =>
          /\ found \in Matches(Query)
          /\ \A j \in Matches(Query) : found <= j
          /\ (flyCmd # NoCmd => flyCmd.center = CoordsOf(found))
          /\ (emit # 0 => emit = found /\ selected = locations.a[found]))

\* "N D" is listed before "D H", both contain the query, the first is selected
C6_Witness ==
  /\ Searched
  /\ Len(locations.a) = 2
  /\ locations.a[1].name = Str(<<"N", " ", "D">>)
  /\ locations.a[2].name = Str(<<"D", " ", "H">>)
  /\ search = <<" ", "D">>
  /\ found = 1
  /\ emit = 1

\* the flyTo the claims ask for: the match's [lat, lon], zoom 8, animated
FlownTo(i) ==
  /\ flyCmd # NoCmd
  /\ flyCmd.t = "flyTo"
  /\ flyCmd.inst = map
  /\ flyCmd.center = CoordsOf(i)
  /\ flyCmd.zoom = 8
  /\ flyCmd.animate = TRUE

\* C7 as stated: every search with a matching non-empty query makes the map
\* fly to the match at zoom 8 and calls onSelect with the match.
C7_MatchFliesAndSelects ==
  (Searched /\ trim(search) # <<>> /\ Matches(Query) # {}) =>
    \E i \in Matches(Query) : FlownTo(i) /\ emit = i

\* C7 amended: it does so whenever the primary map instance has been created.
C7_MatchFliesOnceMapCreated ==
  (Searched /\ trim(search) # <<>> /\ Matches(Query) # {} /\ map # 0) =>
    \E i \in Matches(Query) :
      FlownTo(i) /\ emit = i /\ selected = locations.a[i]

\* a search matched the second location and flew to it
C7_Witness ==
  /\ Searched
  /\ map # 0
  /\ Matches(Query) = {2}
  /\ FlownTo(2)
  /\ emit = 2

\* C8: a search whose query is empty after trimming, or matches no name, issues
\* no flyTo, calls no onSelect and raises no error.
C8_NoOp ==
  (Searched /\ (trim(search) = <<>> \/ Matches(Query) = {})) =>
    (flyCmd = NoCmd /\ emit = 0 /\ found = 0)

\* a blank query was submitted with the map created and a name holding a blank
C8_Witness ==
  /\ Searched
  /\ map # 0
  /\ search = <<" ">>
  /\ \E i \in 1..Len(locations.a) : locations.a[i].name = Str(<<"N", " ", "D">>)
  /\ flyCmd = NoCmd

\* C9: with the load finished and the directory empty the no-data state is
\* rendered: no marker is built and no map surface exists.
C9_NoDataNoMarkers ==
  (mounted /\ ~loading /\ locations = Arr(<<>>)) =>
    /\ View = "nodata"
    /\ Markers = <<>>
    /\ map = 0
    /\ created = 0
    /\ miniMapRef = 0

\* the request was rejected, and the leaflet handle has arrived
C9_Witness ==
  /\ mounted
  /\ response = Rejected
  /\ ~loading
  /\ locations = Arr(<<>>)
  /\ L

Malformed(r) ==
  \/ r \in {Rejected, NullBody}
  \/ /\ r.t = "body"
     /\ \/ r.locations.t # "arr"
        \/ \E i \in 1..Len(r.locations.a) : r.locations.a[i].t # "obj"

\* C10: a rejected or malformed response ends in the no-data state: the load
\* transition happened once, loading has ended, a raised error is logged and
\* the render throws nothing.
C10_FailureIsNoData ==
  (mounted /\ response # Pending /\ Malformed(response)) =>
    /\ View = "nodata"
    /\ ~loading
    /\ loads = 1
    /\ (response \in {Rejected, NullBody} => logged)

\* C11: the synchronizer runs only for completed gestures: a "move" raised
\* for a frame of a drag in progress runs no handler, and a handler that ran
\* was run by "moveend" or "zoomend".
C11_OnlyCompletedGestures ==
  /\ (lastOp.op = "mapEvent" /\ lastOp.ev = "move" /\ dragging = lastOp.inst)
       => invoked = 0
  /\ (lastOp.op = "mapEvent" /\ invoked > 0)
       => lastOp.ev \in {"moveend", "zoomend"}

\* C12: the overview viewport changes only in a step in which the synchronizer
\* runs (or the overview map is created from the derived state), and a
\* gesture on the overview map changes no primary viewport and runs no handler.
C12_OneDirectional ==
  [][/\ (miniView' # miniView) =>
          (invoked' > 0 \/ lastOp'.op = "miniWhenCreated")
     /\ (lastOp'.op = "miniGesture") => (view' = view /\ invoked' = 0)]_vars

\* C13: while the leaflet handle has not arrived, a rendered map view still
\* has one marker for every location.
C13_MarkersWithoutLeaflet ==
  (View = "map" /\ ~L) => Len(Markers) = Len(locations.a)

SearchOutcome ==
  IF trim(search) = <<>> \/ Matches(Query) = {} \/ map = 0
    THEN flyCmd = NoCmd /\ emit = 0
    ELSE \E i \in Matches(Query) :
           /\ \A j \in Matches(Query) : i <= j
           /\ FlownTo(i)
           /\ emit = i
           /\ selected = locations.a[i]

\* C15: an Enter key-press does what the submit button does and also calls
\* preventDefault; any other key runs no search.
C15_EnterIsSubmit ==
  /\ (lastOp.op = "handleSearch") => (SearchOutcome /\ ~prevented)
  /\ (lastOp = KeyOp("Enter")) => (SearchOutcome /\ prevented)
  /\ (lastOp.op = "handleKey" /\ lastOp.ev # "Enter") =>
       (flyCmd = NoCmd /\ emit = 0 /\ found = 0 /\ ~prevented)

\* Enter ran a search that selected a location
C15_Witness ==
  /\ lastOp = KeyOp("Enter")
  /\ prevented
  /\ emit # 0
  /\ flyCmd # NoCmd

\* C16: once a map instance is unmounted or replaced, no legend control is
\* attached to it, whenever LegendControl's import resolves.
C16_LegendRevokedOnTeardown ==
  \A m \in 1..created : (~mounted \/ m # map) => legendsOn[m] = 0

\* C17: the host's selection is none until the first onSelect call, and then
\* the location of the most recent call; it never returns to none.
C17_SelectedIsLatest ==
  /\ (emitted = <<>>) => selected = Null
  /\ (emitted # <<>>) =>
       (selected = locations.a[emitted[Len(emitted)]] /\ selected # Null)

\* two calls for different locations: the later one is the selection
C17_Witness ==
  /\ Len(emitted) = 2
  /\ locations.a[emitted[1]] # locations.a[emitted[2]]
  /\ selected = locations.a[emitted[2]]

====
